---- MODULE Spec2Model ----
(***************************************************************************)
(* Model of fs/btrfs/sysfs.c: the btrfs sysfs registry.                    *)
(*                                                                         *)
(* State: the kobjects (nodes) with their reference counts, the kset       *)
(* membership (roots), the children collections, the four file-scope       *)
(* globals btrfs_kset, btrfs_devices, btrfs_health, btrfs_info, the        *)
(* attribute dispatches in flight, and the position (pc) of the module     *)
(* context inside btrfs_init_sysfs or btrfs_exit_sysfs (after a fault, the *)
(* position of the call that faulted): each call these                     *)
(* functions make into the kobject core is a step of its own, between      *)
(* which the other contexts run.                                           *)
(*                                                                         *)
(* The kobject core (kobject_init_and_add, kobject_put, kset_create_and_add,*)
(* kset_unregister) and the path resolution that precedes a call of the    *)
(* show/store handlers are not part of fs/btrfs/sysfs.c; they are modelled *)
(* from the design document (sections 4.2 and 6).  The handlers themselves *)
(* (btrfs_kobject_attr_show, btrfs_kobject_attr_store) are in the file and *)
(* take no reference on the node they are called for.                      *)
(***************************************************************************)
EXTENDS Integers, Sequences, FiniteSets, TLC

VARIABLES kobj, roots, children,
          btrfs_kset, btrfs_devices, btrfs_health, btrfs_info,
          phase, init_ret, failed_at,
          dev_ret, dev_add, held,
          disp, decl_attrs, init_log, pc

vars == <<kobj, roots, children,
          btrfs_kset, btrfs_devices, btrfs_health, btrfs_info,
          phase, init_ret, failed_at,
          dev_ret, dev_add, held,
          disp, decl_attrs, init_log, pc>>

(* ---------------------------- bounds ----------------------------------- *)

\* number of caller-owned device kobjects handed to btrfs_create_device
MaxDevices == 1

\* number of concurrent requesters of the rendering layer
MaxReq == 1

\* longest attribute list of a hypothetical NodeType declaration
MaxAttrs == 2

(* ------------------------- program constants --------------------------- *)

EIO == 5

EINVAL == 22

ENOMEM == 12

\* 0444
Mode0444 == 292

\* 0666
Mode0666 == 438

(* ----------------------------- identities ------------------------------ *)

Roots == {"devices", "health", "info"}

DevNames == <<"sda", "sdb", "sdc", "sdd">>

Devs == {DevNames[i] : i \in 1..MaxDevices}

DeclNode == "decl"

NodeIds == Roots \cup Devs \cup {DeclNode}

Reqs == 1..MaxReq

(* ------------------- attribute and ktype declarations ------------------ *)

\* BTRFS_ATTR(_name,_mode,_show,_store): a plain initializer, no validation
BTRFS_ATTR(name, mode, show, store) ==
    [name |-> name, mode |-> mode, show |-> show, store |-> store]

btrfs_attr_num_devices == BTRFS_ATTR("num_devices", Mode0444, "NULL", "NULL")

btrfs_attr_dummy == BTRFS_ATTR("dummy", Mode0444, "NULL", "NULL")

btrfs_attr_dummy1 == BTRFS_ATTR("dummy1", Mode0444, "NULL", "NULL")

btrfs_attr_label == BTRFS_ATTR("label", Mode0444, "NULL", "NULL")

btrfs_info_default_attrs == <<btrfs_attr_num_devices>>

btrfs_health_default_attrs == <<btrfs_attr_dummy>>

btrfs_devices_default_attrs == <<btrfs_attr_dummy1>>

btrfs_device_default_attrs == <<btrfs_attr_label>>

\* the default_attrs of the kobj_type named t; "decl" is the hypothetical
\* declaration under examination in SpecDecl
default_attrs(t, decl) ==
    CASE t = "info" -> btrfs_info_default_attrs
      [] t = "health" -> btrfs_health_default_attrs
      [] t = "devices" -> btrfs_devices_default_attrs
      [] t = "device" -> btrfs_device_default_attrs
      [] t = "decl" -> decl
      [] OTHER -> <<>>

\* mode 0444 carries no write permission, mode 0666 does
ReadOnly(a) == a.mode = Mode0444

ReadWrite(a) == ~ReadOnly(a)

(* ------------------------------ kobjects ------------------------------- *)

\* a kobject that does not exist (no memory, or caller memory never initialised)
NullKobj ==
    [state |-> "none", refcount |-> 0, in_sysfs |-> FALSE, parent |-> "NULL",
     kset |-> "NULL", name |-> "", ktype |-> "NULL", ktype_ref |-> "NULL",
     released |-> 0, ptr |-> 0]

\* the state the handlers work on, threaded through their calls
Bundle(k, r, c, ks, d, h, i) ==
    [kobj |-> k, roots |-> r, children |-> c,
     kset |-> ks, devices |-> d, health |-> h, info |-> i]

Cur == Bundle(kobj, roots, children,
              btrfs_kset, btrfs_devices, btrfs_health, btrfs_info)

\* kfree of the btrfs_kobject: the release callback of every kobj_type
btrfs_kobject_release(S, n) ==
    [S EXCEPT !.kobj[n].state = "freed",
              !.kobj[n].released = @ + 1]

\* kobject_init_and_add: refcount 1, type reference stored, and the node is
\* wired into its container and published unless the renderer rejects it
kobject_init_and_add(S, n, ktype, ref, parent, name, add_ok) ==
    LET base == [S.kobj[n] EXCEPT !.state = "init", !.refcount = 1,
                                  !.ktype = ktype, !.ktype_ref = ref,
                                  !.name = name]
    IN IF ~add_ok
       THEN [S |-> [S EXCEPT !.kobj[n] = [base EXCEPT !.parent = "NULL",
                                                     !.in_sysfs = FALSE]],
             ret |-> -ENOMEM]
       ELSE IF parent # "NULL"
       THEN [S |-> [S EXCEPT !.kobj[n] = [base EXCEPT !.parent = parent,
                                                     !.in_sysfs = TRUE],
                             !.children[parent] = @ \cup {n}],
             ret |-> 0]
       ELSE IF base.kset # "NULL"
       THEN [S |-> [S EXCEPT !.kobj[n] = [base EXCEPT !.parent = "NULL",
                                                     !.in_sysfs = TRUE],
                             !.roots = @ \cup {n}],
             ret |-> 0]
       ELSE [S |-> [S EXCEPT !.kobj[n] = [base EXCEPT !.parent = "NULL",
                                                     !.in_sysfs = TRUE]],
             ret |-> 0]

\* the node leaves every container, its children are detached
Unlink(S, n) ==
    [S EXCEPT !.roots = @ \ {n},
              !.children = [p \in NodeIds |->
                              IF p = n THEN {} ELSE S.children[p] \ {n}],
              !.kobj = [c \in NodeIds |->
                          IF c = n
                          THEN [S.kobj[c] EXCEPT !.in_sysfs = FALSE,
                                                 !.parent = "NULL",
                                                 !.refcount = 0]
                          ELSE IF S.kobj[c].parent = n
                          THEN [S.kobj[c] EXCEPT !.parent = "NULL"]
                          ELSE S.kobj[c]]]

\* kobject_put: drops one reference; at zero the node is unpublished,
\* unlinked and the release callback is looked up through the node's type
\* reference.  A type reference into the frame of a btrfs_kobject_create
\* call that has returned is dangling: what the lookup yields is not
\* determined, ub is the outcome: the release function ("release"), no
\* function ("skip"), or a value the call through which faults ("fault").
kobject_put(S, n, ub) ==
    IF n = "NULL" THEN S
    ELSE IF S.kobj[n].state = "init" /\ S.kobj[n].refcount = 1
    THEN LET U == Unlink(S, n)
         IN IF U.kobj[n].ktype_ref \in {"static", "frame_live"} \/ ub = "release"
            THEN btrfs_kobject_release(U, n)
            ELSE U
    ELSE [S EXCEPT !.kobj[n].refcount = @ - 1]

\* the kobject_put of node n drops the last reference and its call through
\* the dangling type reference faults: the calling context stops there
Faults(S, n, ub) ==
    /\ n # "NULL"
    /\ S.kobj[n].state = "init"
    /\ S.kobj[n].refcount = 1
    /\ S.kobj[n].ktype_ref = "frame_dead"
    /\ ub = "fault"

(* ----------------------- fs/btrfs/sysfs.c: lifecycle ------------------- *)

\* the frame of btrfs_kobject_create is left: its by-value ktype dies
LeaveFrame(S, n) ==
    [S EXCEPT !.kobj[n].ktype_ref =
                 IF @ = "frame_live" THEN "frame_dead" ELSE @]

\* btrfs_kobject_create that leaves kobj.kset unset
btrfs_kobject_create_nokset(S, n, name, ktype, btrfs_parent, alloc_ok, add_ok) ==
    IF ~alloc_ok THEN [S |-> S, ret |-> "NULL"]
    ELSE
    LET S1 == [S EXCEPT !.kobj[n] = [NullKobj EXCEPT !.state = "alloc"]]
        r == kobject_init_and_add(S1, n, ktype, "frame_live",
                                  btrfs_parent, name, add_ok)
    IN IF r.ret # 0
       THEN [S |-> LeaveFrame(kobject_put(r.S, n, "skip"), n), ret |-> "NULL"]
       ELSE [S |-> LeaveFrame(r.S, n), ret |-> n]

\* btrfs_kobject_create that forgets the kobject_put on the error path
btrfs_kobject_create_noput(S, n, name, ktype, btrfs_parent, alloc_ok, add_ok) ==
    IF ~alloc_ok THEN [S |-> S, ret |-> "NULL"]
    ELSE
    LET S1 == [S EXCEPT !.kobj[n] =
                 [NullKobj EXCEPT !.state = "alloc",
                                  !.kset = IF btrfs_parent = "NULL" /\ S.kset # "NULL"
                                           THEN "btrfs" ELSE "NULL"]]
        r == kobject_init_and_add(S1, n, ktype, "frame_live",
                                  btrfs_parent, name, add_ok)
    IN IF r.ret # 0
       THEN [S |-> LeaveFrame(r.S, n), ret |-> "NULL"]
       ELSE [S |-> LeaveFrame(r.S, n), ret |-> n]

\* btrfs_kobject_create(name, ktype, btrfs_parent); n is the address kzalloc
\* hands out.  ktype is a by-value parameter and &ktype is what the kobject
\* keeps.
btrfs_kobject_create(S, n, name, ktype, btrfs_parent, alloc_ok, add_ok) ==
    IF ~alloc_ok THEN [S |-> S, ret |-> "NULL"]
    ELSE
    LET S1 == [S EXCEPT !.kobj[n] =
                 [NullKobj EXCEPT !.state = "alloc",
                                  !.kset = IF btrfs_parent = "NULL" /\ S.kset # "NULL"
                                           THEN "btrfs" ELSE "NULL"]]
        r == kobject_init_and_add(S1, n, ktype, "frame_live",
                                  btrfs_parent, name, add_ok)
    IN IF r.ret # 0
       THEN [S |-> LeaveFrame(kobject_put(r.S, n, "skip"), n), ret |-> "NULL"]
       ELSE [S |-> LeaveFrame(r.S, n), ret |-> n]

\* btrfs_kobject_destroy: kobject_put(&btrfs_kobj->kobj); kobj is the first
\* member, so a NULL btrfs_kobj gives kobject_put a NULL kobject
btrfs_kobject_destroy(S, b, ub) ==
    kobject_put(S, b, ub)

\* the root created at a position of btrfs_static_init_sysfs
RootAt(at) ==
    CASE at = "create_devices" -> "devices"
      [] at = "create_health" -> "health"
      [] at = "create_info" -> "info"
      [] OTHER -> "none"

\* one call of btrfs_static_init_sysfs that does not jump out on a failed
\* creation: the three results are tested after the third creation
btrfs_static_init_sysfs_continue(S, at, alloc_ok, add_ok, ub) ==
    IF RootAt(at) # "none"
    THEN LET k == RootAt(at)
             c == btrfs_kobject_create(S, k, k, k, "NULL", alloc_ok, add_ok)
             S1 == CASE k = "devices" -> [c.S EXCEPT !.devices = c.ret]
                     [] k = "health" -> [c.S EXCEPT !.health = c.ret]
                     [] k = "info" -> [c.S EXCEPT !.info = c.ret]
             bad == "NULL" \in {S1.devices, S1.health, S1.info}
         IN [S |-> S1,
             pc |-> CASE k = "devices" -> "create_health"
                      [] k = "health" -> "create_info"
                      [] k = "info" -> "return",
             ret |-> IF k = "info" /\ bad THEN -EINVAL ELSE 0,
             attempt |-> <<k>>, destroy |-> <<>>,
             failed |-> IF c.ret = "NULL" THEN k ELSE "none"]
    ELSE [S |-> S, pc |-> "return", ret |-> -EINVAL,
          attempt |-> <<>>, destroy |-> <<>>, failed |-> "none"]

\* btrfs_static_init_sysfs, one call into the kobject core at a time.  at is
\* the position: the creation of devices, health or info (a NULL result jumps
\* to the error label of that root), or one of the labels btrfs_info_error and
\* btrfs_health_error, which fall through to the return of -EINVAL at
\* btrfs_devices_error.  The result gives the next position; ret is what the
\* function returns when that position is "return".
btrfs_static_init_sysfs(S, at, alloc_ok, add_ok, ub) ==
    IF RootAt(at) # "none"
    THEN LET k == RootAt(at)
             c == btrfs_kobject_create(S, k, k, k, "NULL", alloc_ok, add_ok)
             S1 == CASE k = "devices" -> [c.S EXCEPT !.devices = c.ret]
                     [] k = "health" -> [c.S EXCEPT !.health = c.ret]
                     [] k = "info" -> [c.S EXCEPT !.info = c.ret]
         IN [S |-> S1,
             pc |-> IF c.ret = "NULL"
                    THEN CASE k = "devices" -> "return"
                           [] k = "health" -> "btrfs_health_error"
                           [] k = "info" -> "btrfs_info_error"
                    ELSE CASE k = "devices" -> "create_health"
                           [] k = "health" -> "create_info"
                           [] k = "info" -> "return",
             ret |-> IF c.ret = "NULL" THEN -EINVAL ELSE 0,
             attempt |-> <<k>>, destroy |-> <<>>,
             failed |-> IF c.ret = "NULL" THEN k ELSE "none"]
    ELSE IF at = "btrfs_info_error"
    THEN [S |-> btrfs_kobject_destroy(S, S.info, ub),
          pc |-> IF Faults(S, S.info, ub) THEN "fault" ELSE "btrfs_health_error",
          ret |-> -EINVAL,
          attempt |-> <<>>, destroy |-> <<S.info>>, failed |-> "none"]
    ELSE [S |-> btrfs_kobject_destroy(S, S.health, ub),
          pc |-> IF Faults(S, S.health, ub) THEN "fault" ELSE "return",
          ret |-> -EINVAL,
          attempt |-> <<>>, destroy |-> <<S.health>>, failed |-> "none"]

\* kset_create_and_add("btrfs", NULL, fs_kobj)
kset_create_and_add(S, kset_ok) ==
    [S EXCEPT !.kset = IF kset_ok THEN "registered" ELSE "NULL"]

\* kset_unregister(btrfs_kset)
kset_unregister(S) ==
    [S EXCEPT !.kset = IF @ = "NULL" THEN "NULL" ELSE "unregistered"]

\* btrfs_init_sysfs, one call at a time: the kset, then the positions of
\* btrfs_static_init_sysfs
btrfs_init_sysfs(S, at, kset_ok, alloc_ok, add_ok, ub) ==
    IF at = "kset_create"
    THEN LET S1 == kset_create_and_add(S, kset_ok)
         IN [S |-> S1,
             pc |-> IF S1.kset = "NULL" THEN "return" ELSE "create_devices",
             ret |-> IF S1.kset = "NULL" THEN -ENOMEM ELSE 0,
             attempt |-> <<>>, destroy |-> <<>>,
             failed |-> IF S1.kset = "NULL" THEN "kset" ELSE "none"]
    ELSE btrfs_static_init_sysfs(S, at, alloc_ok, add_ok, ub)

\* btrfs_create_device: the result of kobject_init_and_add is dropped
btrfs_create_device(S, super_kobj, label, add_ok) ==
    LET r == kobject_init_and_add(S, super_kobj, "device", "static",
                                  S.devices, label, add_ok)
    IN [S |-> r.S, ret |-> 0]

\* btrfs_kill_device
btrfs_kill_device(S, k, ub) ==
    [S |-> kobject_put(S, k, ub), ret |-> 0]

\* one call of btrfs_exit_sysfs that walks the device list before the first
\* put (the loop the source keeps commented out)
btrfs_exit_sysfs_cascade(S, at, ub) ==
    IF at = "put_devices"
    THEN LET kids == S.children[S.devices]
             S0 == [S EXCEPT !.kobj = [c \in NodeIds |->
                                         IF c \in kids
                                         THEN [S.kobj[c] EXCEPT !.state = "freed",
                                                                !.released = @ + 1,
                                                                !.refcount = 0,
                                                                !.in_sysfs = FALSE,
                                                                !.parent = "NULL"]
                                         ELSE S.kobj[c]],
                              !.children[S.devices] = {}]
         IN [S |-> btrfs_kobject_destroy(S0, S0.devices, ub),
             pc |-> IF Faults(S0, S0.devices, ub) THEN "fault" ELSE "put_health",
             put |-> S.devices]
    ELSE IF at = "put_health"
    THEN [S |-> btrfs_kobject_destroy(S, S.health, ub),
          pc |-> IF Faults(S, S.health, ub) THEN "fault" ELSE "put_info",
          put |-> S.health]
    ELSE IF at = "put_info"
    THEN [S |-> btrfs_kobject_destroy(S, S.info, ub),
          pc |-> IF Faults(S, S.info, ub) THEN "fault" ELSE "kset_unregister",
          put |-> S.info]
    ELSE [S |-> kset_unregister(S), pc |-> "return", put |-> "NULL"]

\* btrfs_exit_sysfs, one call into the kobject core at a time: the put of
\* btrfs_devices, of btrfs_health, of btrfs_info, then kset_unregister.  A
\* put whose call through the dangling type reference faults ends the
\* function there.
btrfs_exit_sysfs(S, at, ub) ==
    IF at = "put_devices"
    THEN [S |-> btrfs_kobject_destroy(S, S.devices, ub),
          pc |-> IF Faults(S, S.devices, ub) THEN "fault" ELSE "put_health",
          put |-> S.devices]
    ELSE IF at = "put_health"
    THEN [S |-> btrfs_kobject_destroy(S, S.health, ub),
          pc |-> IF Faults(S, S.health, ub) THEN "fault" ELSE "put_info",
          put |-> S.health]
    ELSE IF at = "put_info"
    THEN [S |-> btrfs_kobject_destroy(S, S.info, ub),
          pc |-> IF Faults(S, S.info, ub) THEN "fault" ELSE "kset_unregister",
          put |-> S.info]
    ELSE [S |-> kset_unregister(S), pc |-> "return", put |-> "NULL"]

(* ----------------------- fs/btrfs/sysfs.c: dispatch -------------------- *)

\* a store callback of the shape the source gives as its example:
\* the value is parsed into the node, strlen(buf) is returned
btrfs_attr_store(S, n, buf) ==
    [S |-> [S EXCEPT !.kobj[n].ptr = buf], ret |-> 1, called |-> 1]

\* a show callback of the shape the source gives as its example:
\* sprintf(buf, "%d\n", val)
btrfs_attr_show(S, n) ==
    [S |-> S, ret |-> 2, called |-> 1]

\* btrfs_kobject_attr_store without the test of the store pointer
btrfs_kobject_attr_store_nocheck(S, n, a, buf) ==
    btrfs_attr_store(S, n, buf)

\* btrfs_kobject_attr_store
btrfs_kobject_attr_store(S, n, a, buf) ==
    IF a.store = "NULL"
    THEN [S |-> S, ret |-> -EIO, called |-> 0]
    ELSE btrfs_attr_store(S, n, buf)

\* btrfs_kobject_attr_show that drops what the show callback returned
btrfs_kobject_attr_show_ret0(S, n, a) ==
    IF a.show = "NULL"
    THEN [S |-> S, ret |-> -EIO, called |-> 0]
    ELSE [btrfs_attr_show(S, n) EXCEPT !.ret = 0]

\* btrfs_kobject_attr_show without the test of the show pointer
btrfs_kobject_attr_show_nocheck(S, n, a) ==
    btrfs_attr_show(S, n)

\* btrfs_kobject_attr_show
btrfs_kobject_attr_show(S, n, a) ==
    IF a.show = "NULL"
    THEN [S |-> S, ret |-> -EIO, called |-> 0]
    ELSE btrfs_attr_show(S, n)

(* ------------------------------- state --------------------------------- *)

\* what a lookup through a dangling type reference can yield
UBOutcomes == {"release", "skip", "fault"}

Idle == [pc |-> "idle", node |-> "NULL", attr |-> 0, op |-> "none",
         buf |-> 0, ret |-> 0, called |-> 0, invoked |-> FALSE]

\* write the bundle back to the variables
Commit(S) ==
    /\ kobj' = S.kobj
    /\ roots' = S.roots
    /\ children' = S.children
    /\ btrfs_kset' = S.kset
    /\ btrfs_devices' = S.devices
    /\ btrfs_health' = S.health
    /\ btrfs_info' = S.info

Boot ==
    /\ kobj = [n \in NodeIds |-> NullKobj]
    /\ roots = {}
    /\ children = [n \in NodeIds |-> {}]
    /\ btrfs_devices = "NULL"
    /\ btrfs_health = "NULL"
    /\ btrfs_info = "NULL"
    /\ init_ret = 0
    /\ failed_at = "none"
    /\ dev_ret = [d \in Devs |-> 0]
    /\ dev_add = [d \in Devs |-> "none"]
    /\ held = {}
    /\ disp = [r \in Reqs |-> Idle]
    /\ init_log = [attempts |-> <<>>, destroys |-> <<>>]

\* the module before btrfs_init_sysfs has run
Init ==
    /\ Boot
    /\ btrfs_kset = "NULL"
    /\ phase = "boot"
    /\ pc = "kset_create"
    /\ decl_attrs = <<>>

(* ------------------------------ actions -------------------------------- *)

\* the elements of a sequence
Range(q) == {q[i] : i \in 1..Len(q)}

\* module initialisation runs btrfs_init_sysfs once; each step is the next
\* call the function makes, the other contexts run in between
InitSysfs ==
    /\ phase \in {"boot", "init"}
    /\ \E kset_ok \in BOOLEAN, alloc_ok \in BOOLEAN, add_ok \in BOOLEAN,
          ub \in UBOutcomes :
         LET r == btrfs_init_sysfs(Cur, pc, kset_ok, alloc_ok, add_ok, ub)
         IN /\ Commit(r.S)
            /\ pc' = CASE r.pc = "return" -> "none"
                       [] r.pc = "fault" -> pc
                       [] OTHER -> r.pc
            /\ phase' = CASE r.pc = "return" ->
                               IF r.ret = 0 THEN "up" ELSE "failed"
                          [] r.pc = "fault" -> "crashed"
                          [] OTHER -> "init"
            /\ init_ret' = IF r.pc = "return" THEN r.ret ELSE init_ret
            /\ failed_at' = IF r.failed # "none" THEN r.failed ELSE failed_at
            /\ held' = (held \cup (IF r.failed = "none" THEN Range(r.attempt)
                                   ELSE {})) \ Range(r.destroy)
            /\ init_log' = [attempts |-> init_log.attempts \o r.attempt,
                            destroys |-> init_log.destroys \o r.destroy]
    /\ UNCHANGED <<dev_ret, dev_add, disp, decl_attrs>>

\* a caller hands one of its kobjects to btrfs_create_device
CreateDevice ==
    /\ phase = "up"
    /\ \E d \in Devs, add_ok \in BOOLEAN :
         /\ kobj[d].state = "none"
         /\ LET r == btrfs_create_device(Cur, d, d, add_ok)
            IN /\ Commit(r.S)
               /\ dev_ret' = [dev_ret EXCEPT ![d] = r.ret]
               /\ dev_add' = [dev_add EXCEPT ![d] = IF add_ok THEN "added" ELSE "failed"]
               /\ held' = held \cup {d}
    /\ UNCHANGED <<phase, init_ret, failed_at, disp, decl_attrs, init_log, pc>>

\* the caller gives its device kobject up
KillDevice ==
    /\ \E d \in Devs \cap held, ub \in UBOutcomes :
         LET r == btrfs_kill_device(Cur, d, ub)
         IN /\ Commit(r.S)
            /\ held' = held \ {d}
    /\ UNCHANGED <<phase, init_ret, failed_at, dev_ret, dev_add, disp, decl_attrs, init_log, pc>>

\* module exit runs btrfs_exit_sysfs once, after a successful
\* initialisation; each step is the next call the function makes
ExitSysfs ==
    /\ phase \in {"up", "exit"}
    /\ \E ub \in UBOutcomes :
         LET at == IF phase = "up" THEN "put_devices" ELSE pc
             r == btrfs_exit_sysfs(Cur, at, ub)
         IN /\ Commit(r.S)
            /\ pc' = CASE r.pc = "return" -> "none"
                       [] r.pc = "fault" -> at
                       [] OTHER -> r.pc
            /\ phase' = CASE r.pc = "return" -> "down"
                          [] r.pc = "fault" -> "crashed"
                          [] OTHER -> "exit"
            /\ held' = held \ {r.put}
    /\ UNCHANGED <<init_ret, failed_at, dev_ret, dev_add, disp, decl_attrs, init_log>>

AttrsOf(n) == default_attrs(kobj[n].ktype, decl_attrs)

\* a read or write request is resolved to a published node and one of its
\* attributes; the handler is about to be called.  No reference is taken:
\* neither handler of the file acquires one.
DispBegin ==
    /\ \E r \in Reqs, n \in NodeIds, op \in {"read", "write"} :
         /\ disp[r].pc = "idle"
         /\ kobj[n].state = "init"
         /\ kobj[n].in_sysfs
         /\ \E i \in 1..Len(AttrsOf(n)) :
              disp' = [disp EXCEPT ![r] =
                         [Idle EXCEPT !.pc = "held", !.node = n, !.attr = i,
                                      !.op = op,
                                      !.buf = IF op = "write" THEN 1 ELSE 0]]
    /\ UNCHANGED <<kobj, roots, children, btrfs_kset, btrfs_devices,
                   btrfs_health, btrfs_info,
                   phase, init_ret, failed_at, dev_ret, dev_add, held, decl_attrs, init_log, pc>>

\* the sysfs_ops handler of the node's type is called.  The handler is found
\* through the node and its type reference: when the node has been released
\* in the meantime, or the type reference dangles, the lookup yields the
\* handler, no handler, or a value the call through which faults: the
\* requester then stops inside the dispatch.
DispCall ==
    /\ \E r \in Reqs :
         /\ disp[r].pc = "held"
         /\ LET n == disp[r].node
                a == AttrsOf(n)[disp[r].attr]
                h == IF disp[r].op = "read"
                     THEN btrfs_kobject_attr_show(Cur, n, a)
                     ELSE btrfs_kobject_attr_store(Cur, n, a, disp[r].buf)
            IN \E ub \in (IF kobj[n].ktype_ref = "frame_dead" \/ kobj[n].state # "init"
                          THEN UBOutcomes ELSE {"release"}) :
                 CASE ub = "release" ->
                        /\ Commit(h.S)
                        /\ disp' = [disp EXCEPT ![r].pc = "done",
                                                 ![r].ret = h.ret,
                                                 ![r].called = h.called,
                                                 ![r].invoked = TRUE]
                   [] ub = "skip" ->
                        /\ Commit(Cur)
                        /\ disp' = [disp EXCEPT ![r].pc = "done"]
                   [] ub = "fault" ->
                        /\ Commit(Cur)
                        /\ disp' = [disp EXCEPT ![r].pc = "oops"]
    /\ UNCHANGED <<phase, init_ret, failed_at, dev_ret, dev_add, held, decl_attrs, init_log, pc>>

\* the handler has returned and its result has gone back to the requester
DispEnd ==
    /\ \E r \in Reqs :
         /\ disp[r].pc = "done"
         /\ disp' = [disp EXCEPT ![r] = Idle]
    /\ UNCHANGED <<kobj, roots, children, btrfs_kset, btrfs_devices,
                   btrfs_health, btrfs_info,
                   phase, init_ret, failed_at, dev_ret, dev_add, held, decl_attrs, init_log, pc>>

Next ==
    \/ InitSysfs
    \/ CreateDevice
    \/ KillDevice
    \/ ExitSysfs
    \/ DispBegin
    \/ DispCall
    \/ DispEnd

Spec == Init /\ [][Next]_vars

(* ------------------------------ properties ----------------------------- *)

\* the global handle of a declared root
Handle(k) ==
    CASE k = "devices" -> btrfs_devices
      [] k = "health" -> btrfs_health
      [] k = "info" -> btrfs_info

\* the node is in no container: not in the kset, in no children collection
Absent(n) ==
    /\ n \notin roots
    /\ \A p \in NodeIds : n \notin children[p]

\* some dispatch resolved to node n has not returned to its requester
InFlight(n) ==
    \E r \in Reqs : disp[r].pc \in {"held", "done", "oops"} /\ disp[r].node = n

\* C1: when btrfs_init_sysfs has failed at the creation of a declared root,
\* none of the declared roots is live or published.
C1_AtomicBootstrap ==
    (phase = "failed" /\ failed_at \in Roots) =>
        \A k \in Roots :
            /\ k \notin roots
            /\ ~kobj[k].in_sysfs
            /\ ~(kobj[k].state = "init" /\ kobj[k].refcount > 0)

\* C2: while a dispatch is in flight on a node, the release callback has not
\* run on that node, whatever destroy calls have been interleaved.
C2_NoReleaseDuringDispatch ==
    \A n \in NodeIds :
        InFlight(n) => (kobj[n].released = 0 /\ kobj[n].state = "init")

\* C3: release has fired exactly once on a node when its references have all
\* been dropped (drops = 1 + acquires, the count is zero), and has not fired
\* while the count is above zero.
C3_RefcountCorrectness ==
    \A n \in NodeIds :
        kobj[n].state \in {"init", "freed"} =>
            kobj[n].released = (IF kobj[n].refcount = 0 THEN 1 ELSE 0)

\* C4 as stated: after a create whose publish failed the node is absent from
\* roots and children, release has NOT run on it, and create returned NULL.
C4_Original ==
    \A k \in Roots :
        (failed_at = k /\ kobj[k].state # "none") =>
            /\ Absent(k)
            /\ kobj[k].released = 0
            /\ Handle(k) = "NULL"

\* C4 amended: after a create whose publish failed the node is absent from
\* roots and children, release HAS run on it exactly once (kobject_put on the
\* error path frees it), and create returned NULL.
C4_CreateRollback ==
    \A k \in Roots :
        (failed_at = k /\ kobj[k].state # "none") =>
            /\ Absent(k)
            /\ ~kobj[k].in_sysfs
            /\ kobj[k].released = 1
            /\ kobj[k].state = "freed"
            /\ Handle(k) = "NULL"

\* the publish of health was rejected inside btrfs_kobject_create
C4_Witness ==
    /\ phase = "failed"
    /\ failed_at = "health"
    /\ kobj["health"].state = "freed"
    /\ kobj["health"].released = 1
    /\ btrfs_health = "NULL"

\* C5: a creating call whose publish was rejected returns a failure value;
\* for btrfs_create_device a non-zero result, for btrfs_kobject_create NULL.
C5_PublishFailureSurfaced ==
    /\ \A d \in Devs : dev_add[d] = "failed" => dev_ret[d] # 0
    /\ \A k \in Roots : (failed_at = k /\ kobj[k].state # "none") => Handle(k) = "NULL"

\* C6: a write dispatched to a read-only attribute returns -EIO and leaves
\* every node and payload as it was.
C6_ReadOnlyRejectsWrite ==
    [][\A r \in Reqs :
         (/\ disp[r].pc = "held"
          /\ disp'[r].pc = "done"
          /\ disp'[r].invoked
          /\ disp[r].op = "write"
          /\ ReadOnly(AttrsOf(disp[r].node)[disp[r].attr]))
         => (/\ disp'[r].ret = -EIO
             /\ kobj' = kobj)]_vars

\* a write to a read-only attribute of a live node has been answered
C6_Witness ==
    \E r \in Reqs :
        /\ disp[r].pc = "done"
        /\ disp[r].invoked
        /\ disp[r].op = "write"
        /\ ReadOnly(AttrsOf(disp[r].node)[disp[r].attr])
        /\ disp[r].ret = -EIO
        /\ kobj[disp[r].node].ptr = 0

\* C7: a read of an attribute without show, or a write of an attribute
\* without store, returns -EIO, invokes no callback and changes neither a
\* node (refcount, payload, parent) nor roots nor a children collection.
C7_MissingCapability ==
    [][\A r \in Reqs :
         (/\ disp[r].pc = "held"
          /\ disp'[r].pc = "done"
          /\ disp'[r].invoked
          /\ \/ /\ disp[r].op = "read"
                /\ AttrsOf(disp[r].node)[disp[r].attr].show = "NULL"
             \/ /\ disp[r].op = "write"
                /\ AttrsOf(disp[r].node)[disp[r].attr].store = "NULL")
         => (/\ disp'[r].ret = -EIO
             /\ disp'[r].called = 0
             /\ kobj' = kobj
             /\ roots' = roots
             /\ children' = children)]_vars

\* a read of an attribute without show has been answered
C7_Witness ==
    \E r \in Reqs :
        /\ disp[r].pc = "done"
        /\ disp[r].invoked
        /\ disp[r].op = "read"
        /\ AttrsOf(disp[r].node)[disp[r].attr].show = "NULL"
        /\ disp[r].ret = -EIO
        /\ disp[r].called = 0

\* btrfs_exit_sysfs, entered after a successful initialisation, has made its
\* put of btrfs_devices: it is at a later call, has returned, or has stopped
\* at a put that faulted (pc is then the position of that put)
DevicesPut ==
    /\ failed_at = "none"
    /\ \/ phase = "exit" /\ pc \in {"put_health", "put_info", "kset_unregister"}
       \/ phase = "crashed" /\ pc \in {"put_devices", "put_health", "put_info"}
       \/ phase = "down"

\* C8: once btrfs_exit_sysfs has dropped the last reference of devices, the
\* parent is finalized, and a child created under it whose creator still
\* holds its reference is live, has no parent link and has not been released.
C8_Detachment ==
    DevicesPut =>
        /\ kobj["devices"].refcount = 0
        /\ "devices" \notin roots
        /\ ~kobj["devices"].in_sysfs
        /\ \A d \in Devs \cap held :
              dev_add[d] = "added" =>
                 /\ kobj[d].state = "init"
                 /\ kobj[d].refcount >= 1
                 /\ kobj[d].released = 0
                 /\ kobj[d].parent = "NULL"
                 /\ d \notin children["devices"]

\* devices has been destroyed while a child under it held refcount 1
C8_Witness ==
    /\ phase = "exit"
    /\ pc = "put_health"
    /\ kobj["devices"].refcount = 0
    /\ \E d \in Devs \cap held :
          /\ dev_add[d] = "added"
          /\ kobj[d].state = "init"
          /\ kobj[d].refcount = 1
          /\ kobj[d].parent = "NULL"

\* btrfs_static_init_sysfs run from position at to its return with no other
\* context in between, the creation of root fail being rejected
RECURSIVE RunStaticInit(_, _, _)
RunStaticInit(S, at, fail) ==
    LET r == btrfs_static_init_sysfs(S, at, TRUE, RootAt(at) # fail, "release")
    IN IF r.pc \in {"return", "fault"} THEN r.ret
       ELSE RunStaticInit(r.S, r.pc, fail)

\* what btrfs_static_init_sysfs returns when the creation of root k fails
RetWhenFailing(k) ==
    RunStaticInit(
        Bundle([n \in NodeIds |-> NullKobj], {}, [n \in NodeIds |-> {}],
               "registered", "NULL", "NULL", "NULL"),
        "create_devices", k)

\* C9: the value returned by a failed initialisation tells which
\* root failed: no other root's failure yields the same value.
C9_FailureIdentifiesRoot ==
    (phase = "failed" /\ failed_at \in Roots) =>
        \A k \in Roots \ {failed_at} : RetWhenFailing(k) # init_ret

(* --------------- declarations other than the four of the file ---------- *)

\* the attributes BTRFS_ATTR can declare, over two names: every mode and
\* store combination under both names, "x" declared with a show callback
\* and "y" without one
DeclAttrs ==
    {BTRFS_ATTR(nm, md, IF nm = "x" THEN "fn" ELSE "NULL", st) :
        nm \in {"x", "y"}, md \in {Mode0444, Mode0666},
        st \in {"NULL", "fn"}}

\* the default_attrs arrays of up to MaxAttrs entries
DeclLists ==
    UNION {[1..len -> DeclAttrs] : len \in 0..MaxAttrs}

\* two attributes of the list share a name
DuplicateNames(attrs) ==
    \E i, j \in 1..Len(attrs) : i # j /\ attrs[i].name = attrs[j].name

\* a ReadWrite attribute of the list has no store callback
ReadWriteWithoutStore(attrs) ==
    \E i \in 1..Len(attrs) : ReadWrite(attrs[i]) /\ attrs[i].store = "NULL"

Malformed(attrs) ==
    DuplicateNames(attrs) \/ ReadWriteWithoutStore(attrs)

\* the kset is registered and a kobj_type with some attribute list is declared
InitDecl ==
    /\ Boot
    /\ btrfs_kset = "registered"
    /\ phase = "decl"
    /\ pc = "none"
    /\ decl_attrs \in DeclLists

\* a node of the declared type is created under the kset
DeclCreate ==
    /\ phase = "decl"
    /\ kobj[DeclNode].state = "none"
    /\ \E alloc_ok \in BOOLEAN, add_ok \in BOOLEAN :
         LET r == btrfs_kobject_create(Cur, DeclNode, "x", "decl", "NULL",
                                       alloc_ok, add_ok)
         IN /\ Commit(r.S)
            /\ held' = IF r.ret = "NULL" THEN held ELSE held \cup {r.ret}
    /\ UNCHANGED <<phase, init_ret, failed_at, dev_ret, dev_add, disp, decl_attrs, init_log, pc>>

\* the creator gives its handle up
DeclDestroy ==
    /\ phase = "decl"
    /\ DeclNode \in held
    /\ \E ub \in UBOutcomes :
         Commit(btrfs_kobject_destroy(Cur, DeclNode, ub))
    /\ held' = held \ {DeclNode}
    /\ UNCHANGED <<phase, init_ret, failed_at, dev_ret, dev_add, disp, decl_attrs, init_log, pc>>

NextDecl ==
    \/ DeclCreate
    \/ DeclDestroy
    \/ DispBegin
    \/ DispCall
    \/ DispEnd

SpecDecl == InitDecl /\ [][NextDecl]_vars

RootOrder == <<"devices", "health", "info">>

\* position of a root in the declared order
RootIndex(k) == CHOOSE i \in 1..Len(RootOrder) : RootOrder[i] = k

\* the roots created before root k, latest first
CreatedBeforeReversed(k) ==
    [i \in 1..(RootIndex(k) - 1) |-> RootOrder[RootIndex(k) - i]]

\* C11: when the initialisation has failed at root k, the destroy calls it made
\* are one destroy of each root created before k, in reverse creation order,
\* and none on the failed root.
C11_UnwindSequence ==
    (phase = "failed" /\ failed_at \in Roots) =>
        init_log.destroys = CreatedBeforeReversed(failed_at)

\* C12: the creations are attempted in the order devices, health, info, each
\* at most once, and none is attempted after the first that fails: the roots
\* after it have no node and a NULL handle.
C12_SequentialBootstrap ==
    /\ \E i \in 0..Len(RootOrder) : init_log.attempts = SubSeq(RootOrder, 1, i)
    /\ failed_at \in Roots =>
          /\ init_log.attempts = SubSeq(RootOrder, 1, RootIndex(failed_at))
          /\ \A k \in Roots :
                RootIndex(k) > RootIndex(failed_at) =>
                    (kobj[k].state = "none" /\ Handle(k) = "NULL")
    /\ phase = "up" => init_log.attempts = RootOrder
    /\ failed_at = "kset" => init_log.attempts = <<>>

\* the creation of health has failed: info was never attempted
C12_Witness ==
    /\ failed_at = "health"
    /\ phase = "failed"
    /\ init_log.attempts = <<"devices", "health">>
    /\ kobj["info"].state = "none"
    /\ btrfs_info = "NULL"

\* C13: when the kset and the three creations succeed, btrfs_init_sysfs
\* returns 0 and leaves devices, health and info live, published as members
\* of the kset and of no children collection, each with refcount 1, and each
\* global handle pointing at its node.
C13_SuccessfulBootstrap ==
    [][(/\ phase = "init"
        /\ init_log.attempts # RootOrder
        /\ init_log'.attempts = RootOrder
        /\ failed_at' = "none") =>
          /\ init_ret' = 0
          /\ phase' = "up"
          /\ failed_at' = "none"
          /\ btrfs_kset' = "registered"
          /\ roots' = Roots
          /\ btrfs_devices' = "devices"
          /\ btrfs_health' = "health"
          /\ btrfs_info' = "info"
          /\ \A k \in Roots :
                /\ kobj'[k].state = "init"
                /\ kobj'[k].in_sysfs
                /\ kobj'[k].refcount = 1
                /\ kobj'[k].name = k
                /\ \A p \in NodeIds : k \notin children'[p]]_vars

\* btrfs_init_sysfs has returned 0
C13_Witness ==
    /\ phase = "up"
    /\ init_ret = 0
    /\ failed_at = "none"
    /\ roots = Roots
    /\ \A k \in Roots : kobj[k].refcount = 1 /\ Handle(k) = k

\* C14: a dispatch whose requested callback is present runs that callback
\* once and no other: a read runs show, leaves every node as it was and
\* returns what show returned; a write runs store, changes the nodes as store
\* does and returns what store returned.
C14_SingleVerbatimCallback ==
    [][\A r \in Reqs :
         (/\ disp[r].pc = "held"
          /\ disp'[r].pc = "done"
          /\ disp'[r].invoked)
         => /\ (/\ disp[r].op = "read"
                /\ AttrsOf(disp[r].node)[disp[r].attr].show # "NULL")
               => (/\ disp'[r].called = 1
                   /\ disp'[r].ret = btrfs_attr_show(Cur, disp[r].node).ret
                   /\ kobj' = kobj)
            /\ (/\ disp[r].op = "write"
                /\ AttrsOf(disp[r].node)[disp[r].attr].store # "NULL")
               => (/\ disp'[r].called = 1
                   /\ disp'[r].ret =
                         btrfs_attr_store(Cur, disp[r].node, disp[r].buf).ret
                   /\ kobj' =
                         btrfs_attr_store(Cur, disp[r].node, disp[r].buf).S.kobj)
            /\ roots' = roots
            /\ children' = children]_vars

\* a read of an attribute that has both callbacks has run show alone
C14_Witness ==
    \E r \in Reqs :
        /\ disp[r].pc = "done"
        /\ disp[r].invoked
        /\ disp[r].op = "read"
        /\ disp[r].node = DeclNode
        /\ decl_attrs[disp[r].attr].show = "fn"
        /\ decl_attrs[disp[r].attr].store = "fn"
        /\ disp[r].called = 1
        /\ disp[r].ret = 2
        /\ kobj[DeclNode].ptr = 0

(* ------------------------------ containers ----------------------------- *)

\* the node holds references and is published
Live(n) ==
    /\ kobj[n].state = "init"
    /\ kobj[n].refcount > 0
    /\ kobj[n].in_sysfs

\* the containers node n is a member of: the kset, or a node's children
Containers(n) ==
    (IF n \in roots THEN {"kset"} ELSE {}) \cup
    {p \in NodeIds : n \in children[p]}

\* the parent pointer of n names the container n is in
ParentNamesContainer(n) ==
    /\ n \in roots => kobj[n].parent = "NULL"
    /\ \A p \in NodeIds : n \in children[p] => kobj[n].parent = p

\* C15: every live node is in exactly one container (the kset for a node
\* created without parent, the children of its parent otherwise), which its
\* parent pointer names.
C15_ContainerWiring ==
    \A n \in NodeIds :
        Live(n) => (Cardinality(Containers(n)) = 1 /\ ParentNamesContainer(n))

(* ------------------- any sequence of the exported calls ---------------- *)

\* btrfs_exit_sysfs entered although btrfs_init_sysfs had failed: the
\* function itself tests nothing before it drops the three global handles.
\* This is its first put; ExitSysfs takes the steps after it.
ExitAfterFailedInit ==
    /\ phase = "failed"
    /\ \E ub \in UBOutcomes :
         LET r == btrfs_exit_sysfs(Cur, "put_devices", ub)
         IN /\ Commit(r.S)
            /\ pc' = CASE r.pc = "return" -> "none"
                       [] r.pc = "fault" -> "put_devices"
                       [] OTHER -> r.pc
            /\ phase' = CASE r.pc = "return" -> "down"
                          [] r.pc = "fault" -> "crashed"
                          [] OTHER -> "exit"
            /\ held' = held \ {r.put}
    /\ UNCHANGED <<init_ret, failed_at, dev_ret, dev_add, disp, decl_attrs, init_log>>

NextAny ==
    \/ Next
    \/ ExitAfterFailedInit

SpecAny == Init /\ [][NextAny]_vars

\* C16: after any sequence of init (succeeding or failing at any root),
\* create_device, kill_device and exit, no node has a negative refcount: no
\* reference is dropped through a global handle whose node was released.
C16_NoUnderflow ==
    \A n \in NodeIds : kobj[n].refcount >= 0

(* --------------------- type references, teardown, info ----------------- *)

\* C17: from the return of create until release has run, the type reference
\* of a node designates the statically declared kobj_type, not a copy local
\* to the create call.
C17_TypeReferenceValid ==
    \A n \in NodeIds :
        kobj[n].state = "init" => kobj[n].ktype_ref = "static"

\* C18: after btrfs_exit_sysfs has run on a successful init the kset is
\* unregistered and no node created by the init or by btrfs_create_device is
\* live or published.
C18_Teardown ==
    phase = "down" =>
        /\ btrfs_kset = "unregistered"
        /\ \A n \in Roots \cup Devs : ~Live(n) /\ ~kobj[n].in_sysfs

\* C19: a read of num_devices on the live info root that reaches the handler
\* succeeds with the value of the show callback.
C19_InfoReadable ==
    \A r \in Reqs :
        (/\ disp[r].pc = "done"
         /\ disp[r].invoked
         /\ disp[r].node = "info"
         /\ disp[r].op = "read"
         /\ AttrsOf("info")[disp[r].attr].name = "num_devices")
        => (disp[r].ret >= 0 /\ disp[r].called = 1)
====
